---- MODULE Spec2Model ----
(***************************************************************************)
(* Model of crates/dap_adapters/src/python.rs: PythonDebugAdapter.         *)
(*                                                                         *)
(* get_binary is modelled as a process per call whose steps are the await  *)
(* points of the async code: the claim of the `checked` OnceLock, the      *)
(* version fetch, the download, the layout normalisation and resolution    *)
(* (get_installed_binary).  A PathBuf is a sequence of components, the     *)
(* file system is the set of paths that exist, a JSON object is a function *)
(* from its keys.                                                          *)
(***************************************************************************)
EXTENDS Integers, Sequences, FiniteSets, TLC

VARIABLES
    checked,              \* PythonDebugAdapter.checked: TRUE once the OnceLock is set
    fs,                   \* the paths that exist on disk
    toolchain,            \* what the toolchain registry answers (Option<path string>)
    search_path,          \* the names `which` resolves
    pc,                   \* position of each get_binary call
    config,               \* argument `config` of each call
    user_installed_path,  \* argument `user_installed_path` of each call
    version,              \* local `version` of each call (Option<AdapterVersion>)
    result,               \* what each call returned
    console,              \* messages sent to delegate.output_to_console
    fetches,              \* version fetches each call performed
    installs,             \* install_binary invocations of each call
    queried,              \* toolchain / which queries each call made, in order
    scanned,              \* whether each call scanned the adapter's directory
    task,                 \* input of the request_args specification
    payload               \* output of the request_args specification

vars == <<checked, fs, toolchain, search_path, pc, config, user_installed_path,
          version, result, console, fetches, installs, queried, scanned, task, payload>>

----------------------------------------------------------------------------
(* Bounds *)

NumCalls == 2

Calls == 1..NumCalls

----------------------------------------------------------------------------
(* Option<T> *)

None == [some |-> FALSE]

Some(v) == [some |-> TRUE, val |-> v]

IsSome(o) == o.some

----------------------------------------------------------------------------
(* Strings and paths *)

starts_with(s, prefix) ==
    /\ Len(s) >= Len(prefix)
    /\ SubSeq(s, 1, Len(prefix)) = prefix

\* Path::join
join(path, name) == Append(path, name)

\* Path::file_name
file_name(path) == path[Len(path)]

\* Path::to_string_lossy: the components separated by "/"
RECURSIVE to_string_lossy(_)
to_string_lossy(path) ==
    IF Len(path) = 0 THEN ""
    ELSE IF Len(path) = 1 THEN "/" \o path[1]
    ELSE to_string_lossy(SubSeq(path, 1, Len(path) - 1)) \o "/" \o path[Len(path)]

IsUnder(path, dir) ==
    /\ Len(path) > Len(dir)
    /\ SubSeq(path, 1, Len(dir)) = dir

Children(files, dir) == {p \in files : IsUnder(p, dir) /\ Len(p) = Len(dir) + 1}

----------------------------------------------------------------------------
(* Constants of PythonDebugAdapter *)

ADAPTER_NAME == "Debugpy"

ADAPTER_PACKAGE_NAME == "debugpy"

ADAPTER_PATH == <<"src", "debugpy", "adapter">>

LANGUAGE_NAME == "Python"

BINARY_NAMES == <<"python3", "python", "py">>

VENDOR_PREFIX == "microsoft-debugpy-"

\* DebugAdapter::name
name == ADAPTER_NAME

\* paths::debug_adapters_dir()
debug_adapters_dir == <<"debug_adapters">>

\* the error of a missing adapter directory (NotInstalled)
NotInstalled == "Debugpy directory not found"

\* the error of a missing interpreter (InterpreterNotFound)
InterpreterNotFound == "failed to find binary path for python"

DownloadError == "download failed"

ExtractionError == "extraction failed"

MoveError == "move failed"

InstallErrors == {DownloadError, ExtractionError, MoveError}

Ok(v) == [ok |-> TRUE, val |-> v]

Err(e) == [ok |-> FALSE, err |-> e]

Pending == [ok |-> FALSE, err |-> "pending"]

----------------------------------------------------------------------------
(* request_args *)

\* serde_json::Map::insert
insert(map, k, v) == [x \in DOMAIN map \cup {k} |-> IF x = k THEN v ELSE map[x]]

\* LaunchRequest::env_json: the environment as a JSON object
env_json(launch) == [k \in DOMAIN launch.env |-> launch.env[k]]

\* DebugRequest::to_dap
to_dap(request) == IF request.kind = "Launch" THEN "launch" ELSE "attach"

\* request_args inserting stopOnEntry only when it is true
request_args_stop_if_true(cfg) ==
    LET args == [k \in {"request", "subProcess", "redirectOutput"} |->
                    IF k = "request"
                    THEN (IF cfg.request.kind = "Launch" THEN "launch" ELSE "attach")
                    ELSE TRUE]
        map == IF cfg.request.kind = "Attach"
               THEN insert(args, "processId", cfg.request.process_id)
               ELSE LET launch == cfg.request
                        m1 == insert(args, "program", launch.program)
                        m2 == insert(m1, "args", launch.args)
                        m3 == IF DOMAIN launch.env # {}
                              THEN insert(m2, "env", env_json(launch))
                              ELSE m2
                        m4 == IF cfg.stop_on_entry = Some(TRUE)
                              THEN insert(m3, "stopOnEntry", TRUE)
                              ELSE m3
                        m5 == IF IsSome(launch.cwd)
                              THEN insert(m4, "cwd", to_string_lossy(launch.cwd.val))
                              ELSE m4
                    IN  m5
    IN  [configuration |-> map, request |-> to_dap(cfg.request)]

\* request_args inserting stopOnEntry after the match, for either request
request_args_stop_on_entry_always(cfg) ==
    LET args == [k \in {"request", "subProcess", "redirectOutput"} |->
                    IF k = "request"
                    THEN (IF cfg.request.kind = "Launch" THEN "launch" ELSE "attach")
                    ELSE TRUE]
        map == IF cfg.request.kind = "Attach"
               THEN insert(args, "processId", cfg.request.process_id)
               ELSE LET launch == cfg.request
                        m1 == insert(args, "program", launch.program)
                        m2 == insert(m1, "args", launch.args)
                        m3 == IF DOMAIN launch.env # {}
                              THEN insert(m2, "env", env_json(launch))
                              ELSE m2
                        m5 == IF IsSome(launch.cwd)
                              THEN insert(m3, "cwd", to_string_lossy(launch.cwd.val))
                              ELSE m3
                    IN  m5
        stopped == IF IsSome(cfg.stop_on_entry)
                   THEN insert(map, "stopOnEntry", cfg.stop_on_entry.val)
                   ELSE map
    IN  [configuration |-> stopped, request |-> to_dap(cfg.request)]

\* request_args inserting program and args before the match on the request
request_args_program_always(cfg) ==
    LET args == [k \in {"request", "subProcess", "redirectOutput"} |->
                    IF k = "request"
                    THEN (IF cfg.request.kind = "Launch" THEN "launch" ELSE "attach")
                    ELSE TRUE]
        map == IF cfg.request.kind = "Attach"
               THEN insert(insert(insert(args, "program", ""), "args", <<>>),
                           "processId", cfg.request.process_id)
               ELSE LET launch == cfg.request
                        m1 == insert(args, "program", launch.program)
                        m2 == insert(m1, "args", launch.args)
                        m3 == IF DOMAIN launch.env # {}
                              THEN insert(m2, "env", env_json(launch))
                              ELSE m2
                        m4 == IF IsSome(cfg.stop_on_entry)
                              THEN insert(m3, "stopOnEntry", cfg.stop_on_entry.val)
                              ELSE m3
                        m5 == IF IsSome(launch.cwd)
                              THEN insert(m4, "cwd", to_string_lossy(launch.cwd.val))
                              ELSE m4
                    IN  m5
    IN  [configuration |-> map, request |-> to_dap(cfg.request)]

request_args(cfg) ==
    LET args == [k \in {"request", "subProcess", "redirectOutput"} |->
                    IF k = "request"
                    THEN (IF cfg.request.kind = "Launch" THEN "launch" ELSE "attach")
                    ELSE TRUE]
        map == IF cfg.request.kind = "Attach"
               THEN insert(args, "processId", cfg.request.process_id)
               ELSE LET launch == cfg.request
                        m1 == insert(args, "program", launch.program)
                        m2 == insert(m1, "args", launch.args)
                        m3 == IF DOMAIN launch.env # {}
                              THEN insert(m2, "env", env_json(launch))
                              ELSE m2
                        m4 == IF IsSome(cfg.stop_on_entry)
                              THEN insert(m3, "stopOnEntry", cfg.stop_on_entry.val)
                              ELSE m3
                        m5 == IF IsSome(launch.cwd)
                              THEN insert(m4, "cwd", to_string_lossy(launch.cwd.val))
                              ELSE m4
                    IN  m5
    IN  [configuration |-> map, request |-> to_dap(cfg.request)]

----------------------------------------------------------------------------
(* Connection parameters *)

DEFAULT_HOST == "127.0.0.1"

DEFAULT_TIMEOUT == 2000

\* ports the transport may pick when the task names none
FREE_PORTS == {49152}

\* TcpArgumentsTemplate::default()
default_tcp_connection == [host |-> None, port |-> None, timeout |-> None]

unwrap_or_default(tcp_connection) ==
    IF IsSome(tcp_connection) THEN tcp_connection.val ELSE default_tcp_connection

\* crate::configure_tcp_connection: every field present in the template
\* replaces its default
configure_tcp_connection(tcp_connection, free_port) ==
    Ok([host    |-> IF IsSome(tcp_connection.host) THEN tcp_connection.host.val
                    ELSE DEFAULT_HOST,
        port    |-> IF IsSome(tcp_connection.port) THEN tcp_connection.port.val
                    ELSE free_port,
        timeout |-> IF IsSome(tcp_connection.timeout) THEN tcp_connection.timeout.val
                    ELSE DEFAULT_TIMEOUT])

----------------------------------------------------------------------------
(* File system primitives *)

\* util::fs::find_file_name_in_dir: the entries of dir the scan may return
\* (the first match in directory order); empty when it returns None
find_file_name_in_dir(files, dir, prefix) ==
    {p \in Children(files, dir) : starts_with(file_name(p), prefix)}

\* util::fs::move_folder_files_to_folder: the contents of source become
\* children of target and source is removed
move_folder_files_to_folder(files, source, target) ==
    {p \in files : p # source /\ ~IsUnder(p, source)}
        \cup {target \o SubSeq(p, Len(source) + 1, Len(p)) :
                  p \in {q \in files : IsUnder(q, source)}}

\* the directory of this adapter in the adapters root
adapter_path == join(debug_adapters_dir, name)

\* the version-qualified directory of a release
version_path(v) == join(adapter_path, name \o "_" \o v.tag_name)

\* adapters::download_adapter_from_github, when it succeeds: the archive is
\* extracted into the version-qualified directory
download_adapter_from_github(files, v, archive) ==
    files \cup {debug_adapters_dir, adapter_path, version_path(v)}
          \cup {version_path(v) \o e : e \in archive}

----------------------------------------------------------------------------
(* Interpreter resolution and get_installed_binary *)

\* delegate.toolchain_store().active_toolchain(..): the registry's answer
active_toolchain == toolchain

\* delegate.which(cmd), mapped to a string as the loop does
which(cmd) ==
    IF cmd \in search_path
    THEN Some(to_string_lossy(<<"usr", "bin", cmd>>))
    ELSE None

\* the loop over BINARY_NAMES from index i on: the name it ends with and the
\* names it asked for
RECURSIVE probe_binary_names(_)
probe_binary_names(i) ==
    IF i > Len(BINARY_NAMES)
    THEN [name |-> None, asked |-> <<>>]
    ELSE LET found == which(BINARY_NAMES[i])
         IN  IF IsSome(found)
             THEN [name |-> found, asked |-> <<BINARY_NAMES[i]>>]
             ELSE LET rest == probe_binary_names(i + 1)
                  IN  [name |-> rest.name, asked |-> <<BINARY_NAMES[i]>> \o rest.asked]

\* python_path probing the search path before asking the toolchain registry
python_path_search_first ==
    LET probed == probe_binary_names(1)
    IN  IF IsSome(probed.name)
        THEN [name |-> probed.name, asked |-> probed.asked]
        ELSE [name  |-> active_toolchain,
              asked |-> probed.asked \o <<"toolchain">>]

\* python_path falling back to a bare "python3" when nothing resolves
python_path_default ==
    IF IsSome(active_toolchain)
    THEN [name |-> Some(active_toolchain.val), asked |-> <<"toolchain">>]
    ELSE LET probed == probe_binary_names(1)
         IN  [name  |-> IF IsSome(probed.name) THEN probed.name ELSE Some("python3"),
              asked |-> <<"toolchain">> \o probed.asked]

\* let python_path = ..: the interpreter and the queries made to find it
python_path ==
    IF IsSome(active_toolchain)
    THEN [name |-> Some(active_toolchain.val), asked |-> <<"toolchain">>]
    ELSE LET probed == probe_binary_names(1)
         IN  [name |-> probed.name, asked |-> <<"toolchain">> \o probed.asked]

\* debugpy_dir scanning the adapter's directory first and using the explicit
\* path only when the scan finds nothing
debugpy_dir_scan_first(files, installed_path) ==
    LET file_name_prefix == ADAPTER_NAME \o "_"
        found == find_file_name_in_dir(files, adapter_path, file_name_prefix)
    IN  IF found # {}
        THEN {[dir |-> Some(d), scanned |-> TRUE] : d \in found}
        ELSE {[dir |-> installed_path, scanned |-> TRUE]}

\* debugpy_dir matching the adapter name without the "_" separator
debugpy_dir_name_prefix(files, installed_path) ==
    IF IsSome(installed_path)
    THEN {[dir |-> installed_path, scanned |-> FALSE]}
    ELSE LET file_name_prefix == ADAPTER_NAME
             found == find_file_name_in_dir(files, adapter_path, file_name_prefix)
         IN  IF found = {}
             THEN {[dir |-> None, scanned |-> TRUE]}
             ELSE {[dir |-> Some(d), scanned |-> TRUE] : d \in found}

\* let debugpy_dir = ..: the directories the lookup may yield, None for the
\* early return, and whether the adapter's directory was scanned for it
debugpy_dir(files, installed_path) ==
    IF IsSome(installed_path)
    THEN {[dir |-> installed_path, scanned |-> FALSE]}
    ELSE LET file_name_prefix == ADAPTER_NAME \o "_"
             found == find_file_name_in_dir(files, adapter_path, file_name_prefix)
         IN  IF found = {}
             THEN {[dir |-> None, scanned |-> TRUE]}
             ELSE {[dir |-> Some(d), scanned |-> TRUE] : d \in found}

\* DebugAdapterBinary copying a launch task's cwd and env into the descriptor
DebugAdapterBinary_copies_launch(cfg, dir, command, tcp) ==
    [command      |-> command,
     arguments    |-> <<to_string_lossy(dir \o ADAPTER_PATH),
                        "--port=" \o ToString(tcp.port),
                        "--host=" \o tcp.host>>,
     connection   |-> Some([host |-> tcp.host, port |-> tcp.port,
                            timeout |-> tcp.timeout]),
     cwd          |-> IF cfg.request.kind = "Launch" THEN cfg.request.cwd ELSE None,
     envs         |-> IF cfg.request.kind = "Launch" THEN cfg.request.env ELSE <<>>,
     request_args |-> request_args(cfg)]

\* DebugAdapterBinary with the --host flag before the --port flag
DebugAdapterBinary_host_first(cfg, dir, command, tcp) ==
    [command      |-> command,
     arguments    |-> <<to_string_lossy(dir \o ADAPTER_PATH),
                        "--host=" \o tcp.host,
                        "--port=" \o ToString(tcp.port)>>,
     connection   |-> Some([host |-> tcp.host, port |-> tcp.port,
                            timeout |-> tcp.timeout]),
     cwd          |-> None,
     envs         |-> <<>>,
     request_args |-> request_args(cfg)]

\* the descriptor get_installed_binary assembles
DebugAdapterBinary(cfg, dir, command, tcp) ==
    [command      |-> command,
     arguments    |-> <<to_string_lossy(dir \o ADAPTER_PATH),
                        "--port=" \o ToString(tcp.port),
                        "--host=" \o tcp.host>>,
     connection   |-> Some([host |-> tcp.host, port |-> tcp.port,
                            timeout |-> tcp.timeout]),
     cwd          |-> None,
     envs         |-> <<>>,
     request_args |-> request_args(cfg)]

\* get_installed_binary resolving the interpreter before it looks for the
\* installed directory
get_installed_binary_interpreter_first(cfg, installed_path, files, free_port) ==
    LET tcp_connection == unwrap_or_default(cfg.tcp_connection)
        tcp == configure_tcp_connection(tcp_connection, free_port)
    IN  IF ~tcp.ok
        THEN {[result |-> tcp, queried |-> <<>>, scanned |-> FALSE]}
        ELSE IF ~IsSome(python_path.name)
        THEN {[result |-> Err(InterpreterNotFound), queried |-> python_path.asked,
               scanned |-> FALSE]}
        ELSE {IF ~IsSome(found.dir)
              THEN [result |-> Err(NotInstalled), queried |-> python_path.asked,
                    scanned |-> found.scanned]
              ELSE [result  |-> Ok(DebugAdapterBinary(cfg, found.dir.val,
                                                      python_path.name.val, tcp.val)),
                    queried |-> python_path.asked,
                    scanned |-> found.scanned]
              : found \in debugpy_dir(files, installed_path)}

\* get_installed_binary requiring the task to carry a tcp_connection instead
\* of defaulting it
get_installed_binary_requires_tcp(cfg, installed_path, files, free_port) ==
    IF ~IsSome(cfg.tcp_connection)
    THEN {[result |-> Err("tcp_connection missing"), queried |-> <<>>,
           scanned |-> FALSE]}
    ELSE LET tcp == configure_tcp_connection(cfg.tcp_connection.val, free_port)
         IN  {IF ~IsSome(found.dir)
              THEN [result |-> Err(NotInstalled), queried |-> <<>>,
                    scanned |-> found.scanned]
              ELSE IF ~IsSome(python_path.name)
              THEN [result |-> Err(InterpreterNotFound), queried |-> python_path.asked,
                    scanned |-> found.scanned]
              ELSE [result  |-> Ok(DebugAdapterBinary(cfg, found.dir.val,
                                                      python_path.name.val, tcp.val)),
                    queried |-> python_path.asked,
                    scanned |-> found.scanned]
              : found \in debugpy_dir(files, installed_path)}

\* get_installed_binary: the outcomes it may have, each with the queries made
get_installed_binary(cfg, installed_path, files, free_port) ==
    LET tcp_connection == unwrap_or_default(cfg.tcp_connection)
        tcp == configure_tcp_connection(tcp_connection, free_port)
    IN  IF ~tcp.ok
        THEN {[result |-> tcp, queried |-> <<>>, scanned |-> FALSE]}
        ELSE {IF ~IsSome(found.dir)
              THEN [result |-> Err(NotInstalled), queried |-> <<>>,
                    scanned |-> found.scanned]
              ELSE IF ~IsSome(python_path.name)
              THEN [result |-> Err(InterpreterNotFound), queried |-> python_path.asked,
                    scanned |-> found.scanned]
              ELSE [result  |-> Ok(DebugAdapterBinary(cfg, found.dir.val,
                                                      python_path.name.val, tcp.val)),
                    queried |-> python_path.asked,
                    scanned |-> found.scanned]
              : found \in debugpy_dir(files, installed_path)}

----------------------------------------------------------------------------
(* Inputs *)

\* environments of a launch request: empty, one variable, two variables
Environments ==
    {<<>>,
     [k \in {"PYTHONPATH"} |-> "lib"],
     [k \in {"PYTHONPATH", "DEBUG"} |-> IF k = "DEBUG" THEN "1" ELSE "lib"]}

LaunchRequests ==
    {[kind |-> "Launch", program |-> program, args |-> args, env |-> env, cwd |-> cwd] :
        program \in {"main.py", "app.py"},
        args \in {<<>>, <<"--verbose">>},
        env \in Environments,
        cwd \in {None, Some(<<"work", "project">>)}}

AttachRequests == {[kind |-> "Attach", process_id |-> pid] : pid \in {4242, 1}}

TcpConnections ==
    {None,
     Some([host |-> None, port |-> Some(5678), timeout |-> None]),
     Some([host |-> Some("192.168.1.5"), port |-> Some(6000), timeout |-> Some(500)])}

\* every task definition the request_args specification builds a payload for
Tasks ==
    {[request |-> request, stop_on_entry |-> stop, tcp_connection |-> tcp] :
        request \in LaunchRequests \cup AttachRequests,
        stop \in {None, Some(TRUE), Some(FALSE)},
        tcp \in TcpConnections}

\* the task definition get_binary is called with: its steps up to resolution
\* do not read the task
CallTasks ==
    {[request |-> [kind |-> "Launch", program |-> "main.py", args |-> <<"--verbose">>,
                   env |-> [k \in {"PYTHONPATH"} |-> "lib"],
                   cwd |-> Some(<<"work", "project">>)],
      stop_on_entry |-> Some(FALSE),
      tcp_connection |-> None]}

UserInstalledPaths == {None, Some(<<"opt", "debugpy">>)}

\* the releases the registry may report as latest
LatestVersions == {[tag_name |-> "v2", url |-> "https://github.com/microsoft/debugpy/v2.zip"]}

\* archives: the payload wrapped in a vendor-prefixed directory, or not
WrappedArchive ==
    {<<"microsoft-debugpy-abc">>,
     <<"microsoft-debugpy-abc", "src">>,
     <<"microsoft-debugpy-abc", "src", "debugpy">>,
     <<"microsoft-debugpy-abc", "README.md">>}

FlatArchive == {<<"src">>, <<"src", "debugpy">>, <<"README.md">>}

Archives == {WrappedArchive, FlatArchive}

\* what is on disk when the process starts: nothing, an adapter directory
\* without an installed version, or an older installed version
InitialFiles ==
    {{},
     {debug_adapters_dir, adapter_path, join(adapter_path, "Debugpy-old")},
     {debug_adapters_dir, adapter_path, join(adapter_path, "Debugpy_v1"),
      join(adapter_path, "Debugpy_v1") \o <<"src">>}}

\* what the toolchain registry and the search path answer: a registered
\* toolchain with every or no candidate resolvable, or no toolchain with any
\* subset of the candidates resolvable
InterpreterEnvironments ==
    {[toolchain |-> Some("/project/.venv/bin/python"), search_path |-> names] :
        names \in {{}, {"python3", "python", "py"}}}
    \cup {[toolchain |-> None, search_path |-> names] :
              names \in SUBSET {"python3", "python", "py"}}

NoTask == [request |-> [kind |-> "None"], stop_on_entry |-> None, tcp_connection |-> None]

----------------------------------------------------------------------------
(* State after PythonDebugAdapter::default() *)

Init ==
    /\ checked = FALSE
    /\ fs \in InitialFiles
    /\ \E e \in InterpreterEnvironments :
          /\ toolchain = e.toolchain
          /\ search_path = e.search_path
    /\ pc = [p \in Calls |-> "idle"]
    /\ config = [p \in Calls |-> NoTask]
    /\ user_installed_path = [p \in Calls |-> None]
    /\ version = [p \in Calls |-> None]
    /\ result = [p \in Calls |-> Pending]
    /\ console = <<>>
    /\ fetches = [p \in Calls |-> 0]
    /\ installs = [p \in Calls |-> 0]
    /\ queried = [p \in Calls |-> <<>>]
    /\ scanned = [p \in Calls |-> FALSE]
    /\ task = NoTask
    /\ payload = None

----------------------------------------------------------------------------
(* get_binary, one action per step between await points *)

\* a caller issues get_binary(delegate, config, user_installed_path, cx)
Call(p) ==
    /\ pc[p] = "idle"
    /\ \E cfg \in CallTasks, path \in UserInstalledPaths :
          /\ config' = [config EXCEPT ![p] = cfg]
          /\ user_installed_path' = [user_installed_path EXCEPT ![p] = path]
    /\ pc' = [pc EXCEPT ![p] = "claim"]
    /\ UNCHANGED <<checked, fs, toolchain, search_path, version, result, console,
                   fetches, installs, queried, scanned, task, payload>>

\* ClaimChecked announcing the check before testing the flag
ClaimCheckedAnnounceFirst(p) ==
    /\ pc[p] = "claim"
    /\ console' = Append(console,
                         [by |-> p,
                          message |-> "Checking latest version of " \o name \o "..."])
    /\ IF ~checked
       THEN /\ checked' = TRUE
            /\ pc' = [pc EXCEPT ![p] = "fetch"]
       ELSE /\ pc' = [pc EXCEPT ![p] = "resolve"]
            /\ UNCHANGED checked
    /\ UNCHANGED <<fs, toolchain, search_path, config, user_installed_path, version,
                   result, fetches, installs, queried, scanned, task, payload>>

\* ClaimChecked skipping the check when an explicit installed path is given
ClaimCheckedUnlessInstalledPath(p) ==
    /\ pc[p] = "claim"
    /\ IF ~checked /\ ~IsSome(user_installed_path[p])
       THEN /\ checked' = TRUE
            /\ console' = Append(console,
                                 [by |-> p,
                                  message |-> "Checking latest version of " \o name \o "..."])
            /\ pc' = [pc EXCEPT ![p] = "fetch"]
       ELSE /\ pc' = [pc EXCEPT ![p] = "resolve"]
            /\ UNCHANGED <<checked, console>>
    /\ UNCHANGED <<fs, toolchain, search_path, config, user_installed_path, version,
                   result, fetches, installs, queried, scanned, task, payload>>

\* ClaimChecked testing the flag without setting it
ClaimCheckedNeverSet(p) ==
    /\ pc[p] = "claim"
    /\ IF ~checked
       THEN /\ console' = Append(console,
                                 [by |-> p,
                                  message |-> "Checking latest version of " \o name \o "..."])
            /\ pc' = [pc EXCEPT ![p] = "fetch"]
       ELSE /\ pc' = [pc EXCEPT ![p] = "resolve"]
            /\ UNCHANGED console
    /\ UNCHANGED <<checked, fs, toolchain, search_path, config, user_installed_path,
                   version, result, fetches, installs, queried, scanned, task, payload>>

\* if self.checked.set(()).is_ok() { output_to_console(..); fetch.. } else skip
ClaimChecked(p) ==
    /\ pc[p] = "claim"
    /\ IF ~checked
       THEN /\ checked' = TRUE
            /\ console' = Append(console,
                                 [by |-> p,
                                  message |-> "Checking latest version of " \o name \o "..."])
            /\ pc' = [pc EXCEPT ![p] = "fetch"]
       ELSE /\ pc' = [pc EXCEPT ![p] = "resolve"]
            /\ UNCHANGED <<checked, console>>
    /\ UNCHANGED <<fs, toolchain, search_path, config, user_installed_path, version,
                   result, fetches, installs, queried, scanned, task, payload>>

\* fetch_latest_adapter_version(..).await returns Ok(version): install_binary
\* is called with it
FetchVersionOk(p) ==
    /\ pc[p] = "fetch"
    /\ \E v \in LatestVersions : version' = [version EXCEPT ![p] = Some(v)]
    /\ fetches' = [fetches EXCEPT ![p] = @ + 1]
    /\ installs' = [installs EXCEPT ![p] = @ + 1]
    /\ pc' = [pc EXCEPT ![p] = "download"]
    /\ UNCHANGED <<checked, fs, toolchain, search_path, config, user_installed_path,
                   result, console, queried, scanned, task, payload>>

\* FetchVersionErr returning the fetch error to the caller
FetchVersionErrPropagated(p) ==
    /\ pc[p] = "fetch"
    /\ fetches' = [fetches EXCEPT ![p] = @ + 1]
    /\ result' = [result EXCEPT ![p] = Err("fetch failed")]
    /\ pc' = [pc EXCEPT ![p] = "done"]
    /\ UNCHANGED <<checked, fs, toolchain, search_path, config, user_installed_path,
                   version, console, installs, queried, scanned, task, payload>>

\* FetchVersionErr releasing the flag so that a later call retries the check
FetchVersionErrRetry(p) ==
    /\ pc[p] = "fetch"
    /\ fetches' = [fetches EXCEPT ![p] = @ + 1]
    /\ checked' = FALSE
    /\ pc' = [pc EXCEPT ![p] = "resolve"]
    /\ UNCHANGED <<fs, toolchain, search_path, config, user_installed_path,
                   version, result, console, installs, queried, scanned, task, payload>>

\* fetch_latest_adapter_version(..).await returns Err: log_err() makes it None
FetchVersionErr(p) ==
    /\ pc[p] = "fetch"
    /\ fetches' = [fetches EXCEPT ![p] = @ + 1]
    /\ pc' = [pc EXCEPT ![p] = "resolve"]
    /\ UNCHANGED <<checked, fs, toolchain, search_path, config, user_installed_path,
                   version, result, console, installs, queried, scanned, task, payload>>

\* install_binary: download_adapter_from_github(..).await succeeds
DownloadOk(p) ==
    /\ pc[p] = "download"
    /\ \E archive \in Archives :
          fs' = download_adapter_from_github(fs, version[p].val, archive)
    /\ pc' = [pc EXCEPT ![p] = "normalize"]
    /\ UNCHANGED <<checked, toolchain, search_path, config, user_installed_path,
                   version, result, console, fetches, installs, queried, scanned, task, payload>>

\* install_binary: download_adapter_from_github(..).await? fails; the `?` of
\* install_binary and the `?` of get_binary return the error to the caller.
\* A failed extraction leaves the version-qualified directory behind.
DownloadErr(p) ==
    /\ pc[p] = "download"
    /\ \/ /\ result' = [result EXCEPT ![p] = Err(DownloadError)]
          /\ fs' = fs
       \/ /\ result' = [result EXCEPT ![p] = Err(ExtractionError)]
          /\ fs' = download_adapter_from_github(fs, version[p].val, {})
    /\ pc' = [pc EXCEPT ![p] = "done"]
    /\ UNCHANGED <<checked, toolchain, search_path, config, user_installed_path,
                   version, console, fetches, installs, queried, scanned, task, payload>>

\* NormalizeOk looking for a prefix no extracted entry has, so that nothing
\* is ever moved
NormalizeOkWrongPrefix(p) ==
    /\ pc[p] = "normalize"
    /\ LET wrappers == find_file_name_in_dir(fs, version_path(version[p].val),
                                             "microsoft_debugpy_")
       IN  IF wrappers = {}
           THEN fs' = fs
           ELSE \E dir \in wrappers :
                   fs' = move_folder_files_to_folder(fs, dir,
                                                     version_path(version[p].val))
    /\ pc' = [pc EXCEPT ![p] = "resolve"]
    /\ UNCHANGED <<checked, toolchain, search_path, config, user_installed_path,
                   version, result, console, fetches, installs, queried, scanned, task,
                   payload>>

\* install_binary: no vendor-prefixed entry, or its contents are moved up
NormalizeOk(p) ==
    /\ pc[p] = "normalize"
    /\ LET wrappers == find_file_name_in_dir(fs, version_path(version[p].val),
                                             VENDOR_PREFIX)
       IN  IF wrappers = {}
           THEN fs' = fs
           ELSE \E dir \in wrappers :
                   fs' = move_folder_files_to_folder(fs, dir,
                                                     version_path(version[p].val))
    /\ pc' = [pc EXCEPT ![p] = "resolve"]
    /\ UNCHANGED <<checked, toolchain, search_path, config, user_installed_path,
                   version, result, console, fetches, installs, queried, scanned, task, payload>>

\* install_binary: move_folder_files_to_folder(..).await? fails; the error is
\* returned to the caller of get_binary
NormalizeErr(p) ==
    /\ pc[p] = "normalize"
    /\ find_file_name_in_dir(fs, version_path(version[p].val), VENDOR_PREFIX) # {}
    /\ result' = [result EXCEPT ![p] = Err(MoveError)]
    /\ pc' = [pc EXCEPT ![p] = "done"]
    /\ UNCHANGED <<checked, fs, toolchain, search_path, config, user_installed_path,
                   version, console, fetches, installs, queried, scanned, task, payload>>

\* Resolve waiting until no check-and-install pass is in progress
ResolveAfterCheck(p) ==
    /\ pc[p] = "resolve"
    /\ \A q \in Calls : pc[q] \notin {"fetch", "download", "normalize"}
    /\ \E free_port \in FREE_PORTS :
       \E out \in get_installed_binary(config[p], user_installed_path[p], fs, free_port) :
          /\ result' = [result EXCEPT ![p] = out.result]
          /\ queried' = [queried EXCEPT ![p] = out.queried]
          /\ scanned' = [scanned EXCEPT ![p] = out.scanned]
    /\ pc' = [pc EXCEPT ![p] = "done"]
    /\ UNCHANGED <<checked, fs, toolchain, search_path, config, user_installed_path,
                   version, console, fetches, installs, task, payload>>

\* self.get_installed_binary(delegate, &config, user_installed_path, cx).await
Resolve(p) ==
    /\ pc[p] = "resolve"
    /\ \E free_port \in FREE_PORTS :
       \E out \in get_installed_binary(config[p], user_installed_path[p], fs, free_port) :
          /\ result' = [result EXCEPT ![p] = out.result]
          /\ queried' = [queried EXCEPT ![p] = out.queried]
          /\ scanned' = [scanned EXCEPT ![p] = out.scanned]
    /\ pc' = [pc EXCEPT ![p] = "done"]
    /\ UNCHANGED <<checked, fs, toolchain, search_path, config, user_installed_path,
                   version, console, fetches, installs, task, payload>>

Next ==
    \E p \in Calls :
        \/ Call(p)
        \/ ClaimChecked(p)
        \/ FetchVersionOk(p)
        \/ FetchVersionErr(p)
        \/ DownloadOk(p)
        \/ DownloadErr(p)
        \/ NormalizeOk(p)
        \/ NormalizeErr(p)
        \/ Resolve(p)

Spec == Init /\ [][Next]_vars

----------------------------------------------------------------------------
(* One get_binary call on a fresh instance, with any task definition *)

\* a caller issues get_binary with any of the task definitions
CallAnyTask(p) ==
    /\ pc[p] = "idle"
    /\ \E cfg \in Tasks, path \in UserInstalledPaths :
          /\ config' = [config EXCEPT ![p] = cfg]
          /\ user_installed_path' = [user_installed_path EXCEPT ![p] = path]
    /\ pc' = [pc EXCEPT ![p] = "claim"]
    /\ UNCHANGED <<checked, fs, toolchain, search_path, version, result, console,
                   fetches, installs, queried, scanned, task, payload>>

NextOneCall ==
    \/ CallAnyTask(1)
    \/ ClaimChecked(1)
    \/ FetchVersionOk(1)
    \/ FetchVersionErr(1)
    \/ DownloadOk(1)
    \/ DownloadErr(1)
    \/ NormalizeOk(1)
    \/ NormalizeErr(1)
    \/ Resolve(1)

SpecOneCall == Init /\ [][NextOneCall]_vars

----------------------------------------------------------------------------
(* request_args on its own: a task definition is drawn, the payload is built *)

InitRequestArgs ==
    /\ checked = FALSE
    /\ fs = {}
    /\ toolchain = None
    /\ search_path = {}
    /\ pc = [p \in Calls |-> "idle"]
    /\ config = [p \in Calls |-> NoTask]
    /\ user_installed_path = [p \in Calls |-> None]
    /\ version = [p \in Calls |-> None]
    /\ result = [p \in Calls |-> Pending]
    /\ console = <<>>
    /\ fetches = [p \in Calls |-> 0]
    /\ installs = [p \in Calls |-> 0]
    /\ queried = [p \in Calls |-> <<>>]
    /\ scanned = [p \in Calls |-> FALSE]
    /\ task \in Tasks
    /\ payload = None

BuildRequestArgs ==
    /\ ~IsSome(payload)
    /\ payload' = Some(request_args(task))
    /\ UNCHANGED <<checked, fs, toolchain, search_path, pc, config, user_installed_path,
                   version, result, console, fetches, installs, queried, scanned, task>>

NextRequestArgs == BuildRequestArgs

SpecRequestArgs == InitRequestArgs /\ [][NextRequestArgs]_vars

----------------------------------------------------------------------------
(* Properties of the one-time check *)

\* the calls that claimed the flag: each announced the check on the console
Winners == {console[i].by : i \in DOMAIN console}

InProgress(p) == pc[p] \in {"fetch", "download", "normalize"}

SomeCallReturned == \E p \in Calls : pc[p] = "done"

AllCallsReturned == \A p \in Calls : pc[p] \in {"idle", "done"}

\* C1 as stated: once every issued call has returned, exactly one call won
\* the claim, exactly one install attempt was made, and every other call
\* fetched and installed nothing.
C1_ExactlyOneInstallAttempt ==
    (SomeCallReturned /\ AllCallsReturned) =>
        /\ Cardinality(Winners) = 1
        /\ \A p \in Winners : installs[p] = 1
        /\ \A p \in Calls \ Winners : fetches[p] = 0 /\ installs[p] = 0

\* C1 amended: at most one call wins the claim, and exactly one as soon as
\* a call is past the claim; the winner fetches at most once and attempts at
\* most one install, exactly one when its fetch returned a version and none
\* when it failed; every other call performs no fetch and no install.
C1_CheckAndInstallAtMostOnce ==
    /\ Cardinality(Winners) <= 1
    /\ (\E p \in Calls : pc[p] \notin {"idle", "claim"}) => Cardinality(Winners) = 1
    /\ \A p \in Calls \ Winners : fetches[p] = 0 /\ installs[p] = 0
    /\ \A p \in Winners :
          /\ fetches[p] <= 1
          /\ installs[p] = (IF IsSome(version[p]) THEN 1 ELSE 0)
          /\ pc[p] \in {"resolve", "done"} => fetches[p] = 1

C1_Witness ==
    \E p, q \in Calls :
        /\ p # q
        /\ pc[p] = "done" /\ pc[q] = "done"
        /\ fetches[p] = 1 /\ installs[p] = 1
        /\ fetches[q] = 0 /\ installs[q] = 0

\* C2: a call whose install failed after a successful fetch still runs
\* resolution, so no call ever returns an error of the install.
C2_InstallFailureNotPropagated ==
    \A p \in Calls :
        (pc[p] = "done" /\ installs[p] > 0) =>
            (result[p].ok \/ result[p].err \in {NotInstalled, InterpreterNotFound})

FetchFailed(p) == fetches[p] > 0 /\ ~IsSome(version[p])

InstalledDirectoryExists(files) ==
    \E e \in files :
        /\ Len(e) = 3
        /\ e[1] = "debug_adapters" /\ e[2] = "Debugpy"
        /\ starts_with(e[3], "Debugpy_")

InterpreterExists == IsSome(toolchain) \/ search_path # {}

\* C3: when the version fetch of the one-time check fails, no install is
\* attempted, the call goes on to resolution, the fetch error is not its
\* result, and it returns a descriptor exactly when an installed directory
\* (or an explicit path) and an interpreter are found.
C3_FetchFailureFallsThrough ==
    [][\A p \in Calls :
          /\ (pc[p] = "fetch" /\ FetchFailed(p)') =>
                (pc'[p] = "resolve" /\ installs'[p] = 0 /\ fs' = fs)
          /\ (FetchFailed(p) /\ pc[p] = "resolve" /\ pc'[p] = "done") =>
                /\ installs'[p] = 0
                /\ result'[p].ok <=>
                      /\ IsSome(user_installed_path[p]) \/ InstalledDirectoryExists(fs)
                      /\ InterpreterExists
                /\ ~result'[p].ok =>
                      result'[p].err \in {NotInstalled, InterpreterNotFound}]_vars

C3_Witness ==
    \E p \in Calls :
        /\ FetchFailed(p)
        /\ pc[p] = "done"
        /\ result[p].ok
        /\ ~IsSome(user_installed_path[p])

\* C4: a call that lost the claim never enters the check and is never
\* blocked by the winner: its claim step and its resolution are enabled
\* whatever the winner is doing.
C4_LosersNeverWait ==
    \A p \in Calls :
        /\ p \notin Winners => pc[p] \in {"idle", "claim", "resolve", "done"}
        /\ (pc[p] = "claim" /\ checked) => ENABLED ClaimChecked(p)
        /\ pc[p] = "resolve" => ENABLED Resolve(p)

C4_Witness ==
    \E p, q \in Calls :
        /\ InProgress(p)
        /\ q \notin Winners
        /\ pc[q] = "done"
        /\ result[q] = Err(NotInstalled)

\* C5: the flag is unset while no call has been issued, it is set before the
\* fetch starts, it is never unset, and a call that finds it set goes straight
\* to resolution without fetching or installing.
C5_FlagIsWriteOnce ==
    [][/\ (\A p \in Calls : pc[p] = "idle") => ~checked
       /\ checked => checked'
       /\ \A p \in Calls :
             /\ (InProgress(p)' \/ fetches'[p] > 0) => checked'
             /\ (checked /\ pc[p] = "claim" /\ pc'[p] # "claim") =>
                   /\ pc'[p] = "resolve"
                   /\ fetches' = fetches
                   /\ installs' = installs]_vars

C5_Witness ==
    \E p, q \in Calls :
        /\ pc[p] = "done" /\ fetches[p] = 1 /\ ~result[p].ok
        /\ pc[q] = "done" /\ fetches[q] = 0
        /\ checked

----------------------------------------------------------------------------
(* Properties of resolution *)

Returned(p) == pc[p] = "done"

\* the interpreter the priority order selects: the registered toolchain,
\* else the first resolvable name of python3, python, py
FirstMatch ==
    IF IsSome(toolchain) THEN toolchain.val
    ELSE IF "python3" \in search_path THEN "/usr/bin/python3"
    ELSE IF "python" \in search_path THEN "/usr/bin/python"
    ELSE "/usr/bin/py"

\* C6: the command of every returned descriptor is the registered toolchain's
\* path when there is one, whatever the search path resolves, and otherwise
\* the path of the first resolvable name in the order python3, python, py.
C6_InterpreterFirstMatchWins ==
    \A p \in Calls :
        (Returned(p) /\ result[p].ok) => result[p].val.command = FirstMatch

C6_Witness ==
    \E p \in Calls :
        /\ Returned(p) /\ result[p].ok
        /\ ~IsSome(toolchain)
        /\ search_path = {"py"}
        /\ result[p].val.command = "/usr/bin/py"

\* C7: a call that reaches resolution without an explicit installed path
\* while no entry named Debugpy_.. exists in the adapter's directory returns
\* the NotInstalled error.
C7_NotInstalled ==
    [][\A p \in Calls :
          (/\ pc[p] = "resolve" /\ pc'[p] = "done"
           /\ ~IsSome(user_installed_path[p])
           /\ ~InstalledDirectoryExists(fs)) =>
              result'[p] = Err(NotInstalled)]_vars

C7_Witness ==
    \E p \in Calls :
        /\ Returned(p)
        /\ result[p] = Err(NotInstalled)
        /\ ~IsSome(user_installed_path[p])
        /\ join(adapter_path, "Debugpy-old") \in fs

\* C8: a call that asked the toolchain registry, got no toolchain and found
\* none of python3, python, py on the search path returns the
\* InterpreterNotFound error, after asking for each of them in order.
C8_InterpreterNotFound ==
    \A p \in Calls :
        (/\ Returned(p)
         /\ queried[p] # <<>>
         /\ ~IsSome(toolchain)
         /\ search_path = {}) =>
            /\ result[p] = Err(InterpreterNotFound)
            /\ queried[p] = <<"toolchain", "python3", "python", "py">>

C8_Witness ==
    \E p \in Calls :
        /\ Returned(p)
        /\ result[p] = Err(InterpreterNotFound)
        /\ ~IsSome(toolchain)
        /\ search_path = {}

----------------------------------------------------------------------------
(* Properties of request_args *)

Built == IsSome(payload)

Keys == DOMAIN payload.val.configuration

\* C9: the payload of a launch task has request "launch", always has program
\* and args, has env iff the environment is non-empty, has stopOnEntry iff
\* stop_on_entry is set, then with the given value, and has cwd iff the task
\* names a working directory.
C9_LaunchPayload ==
    (Built /\ task.request.kind = "Launch") =>
        /\ payload.val.configuration["request"] = "launch"
        /\ {"program", "args"} \subseteq Keys
        /\ payload.val.configuration["program"] = task.request.program
        /\ payload.val.configuration["args"] = task.request.args
        /\ "env" \in Keys <=> DOMAIN task.request.env # {}
        /\ "stopOnEntry" \in Keys <=> IsSome(task.stop_on_entry)
        /\ IsSome(task.stop_on_entry) =>
              payload.val.configuration["stopOnEntry"] = task.stop_on_entry.val
        /\ "cwd" \in Keys <=> IsSome(task.request.cwd)

C9_Witness ==
    /\ Built
    /\ task.request.kind = "Launch"
    /\ DOMAIN task.request.env # {}
    /\ task.stop_on_entry = Some(FALSE)
    /\ "env" \in Keys
    /\ payload.val.configuration["stopOnEntry"] = FALSE

\* C10: the payload of an attach task has request "attach" and the task's
\* processId, and neither program nor args; every payload has subProcess and
\* redirectOutput set to true.
C10_AttachPayload ==
    Built =>
        /\ payload.val.configuration["subProcess"] = TRUE
        /\ payload.val.configuration["redirectOutput"] = TRUE
        /\ task.request.kind = "Attach" =>
              /\ payload.val.configuration["request"] = "attach"
              /\ "processId" \in Keys
              /\ payload.val.configuration["processId"] = task.request.process_id
              /\ "program" \notin Keys
              /\ "args" \notin Keys

C10_Witness ==
    /\ Built
    /\ task.request.kind = "Attach"
    /\ task.request.process_id = 4242
    /\ payload.val.configuration["processId"] = 4242

----------------------------------------------------------------------------
(* Properties of the returned descriptor *)

\* the entries of the adapter's directory named Debugpy_..
InstalledDirectories(files) ==
    {e \in files :
        /\ Len(e) = 3
        /\ e[1] = "debug_adapters" /\ e[2] = "Debugpy"
        /\ starts_with(e[3], "Debugpy_")}

\* the directories resolution may take as the installed directory of a call
InstalledDirectoryOf(p) ==
    IF IsSome(user_installed_path[p])
    THEN {user_installed_path[p].val}
    ELSE InstalledDirectories(fs)

\* C11: every returned descriptor has the resolved interpreter as command and
\* exactly three arguments: the installed directory joined with
\* src/debugpy/adapter, --port=<port>, --host=<host>, with the port and host
\* of its connection parameters; its request_args is the payload of the
\* call's own task.
C11_DescriptorShape ==
    \A p \in Calls :
        (Returned(p) /\ result[p].ok) =>
            LET binary == result[p].val
            IN  /\ binary.command = FirstMatch
                /\ Len(binary.arguments) = 3
                /\ \E dir \in InstalledDirectoryOf(p) :
                      binary.arguments[1] = to_string_lossy(dir) \o "/src/debugpy/adapter"
                /\ IsSome(binary.connection)
                /\ binary.arguments[2] = "--port=" \o ToString(binary.connection.val.port)
                /\ binary.arguments[3] = "--host=" \o binary.connection.val.host
                /\ binary.request_args = request_args(config[p])
                /\ binary.request_args.configuration["request"] =
                      (IF config[p].request.kind = "Launch" THEN "launch" ELSE "attach")
                /\ config[p].request.kind = "Attach" =>
                      binary.request_args.configuration["processId"] =
                          config[p].request.process_id
                /\ config[p].request.kind = "Launch" =>
                      binary.request_args.configuration["program"] =
                          config[p].request.program

C11_Witness ==
    \E p \in Calls :
        /\ Returned(p) /\ result[p].ok
        /\ result[p].val.arguments =
              <<"/debug_adapters/Debugpy/Debugpy_v1/src/debugpy/adapter",
                "--port=6000", "--host=192.168.1.5">>
        /\ result[p].val.command = "/usr/bin/python3"

\* C12: with an explicit installed path the adapter's directory is not
\* scanned, the call never returns NotInstalled whatever the adapters root
\* holds, and the entrypoint argument is the supplied path joined with
\* src/debugpy/adapter.
C12_ExplicitInstalledPath ==
    \A p \in Calls :
        (Returned(p) /\ IsSome(user_installed_path[p])) =>
            /\ ~scanned[p]
            /\ result[p] # Err(NotInstalled)
            /\ result[p].ok =>
                  result[p].val.arguments[1] =
                      to_string_lossy(user_installed_path[p].val)
                          \o "/src/debugpy/adapter"

C12_Witness ==
    \E p \in Calls :
        /\ Returned(p) /\ result[p].ok
        /\ user_installed_path[p] = Some(<<"opt", "debugpy">>)
        /\ InstalledDirectories(fs) # {}
        /\ ~scanned[p]
        /\ result[p].val.arguments[1] = "/opt/debugpy/src/debugpy/adapter"

----------------------------------------------------------------------------
(* Properties of the installer *)

\* the version-qualified directory a call installs into
VersionDirectory(p) ==
    <<"debug_adapters", "Debugpy", "Debugpy_" \o version[p].val.tag_name>>

\* the entries directly inside a directory of depth 3
TopLevel(files, dir) == {q \in files : Len(q) = 4 /\ SubSeq(q, 1, 3) = dir}

Wrappers(files, dir) ==
    {q \in TopLevel(files, dir) : starts_with(q[4], "microsoft-debugpy-")}

\* C13: when install_binary completes, a vendor-prefixed directory that was
\* the sole top-level entry of the version directory is gone and everything
\* it held sits at the same relative place directly under the version
\* directory; a tree without such a directory is left as extracted.
C13_LayoutNormalization ==
    [][\A p \in Calls :
          (pc[p] = "normalize" /\ pc'[p] = "resolve") =>
              LET dir == VersionDirectory(p)
                  wrappers == Wrappers(fs, dir)
              IN  /\ (wrappers # {} /\ TopLevel(fs, dir) = wrappers
                         /\ Cardinality(wrappers) = 1) =>
                        \A w \in wrappers :
                            /\ w \notin fs'
                            /\ \A q \in fs' : ~(Len(q) > 4 /\ SubSeq(q, 1, 4) = w)
                            /\ \A q \in fs :
                                  (Len(q) > 4 /\ SubSeq(q, 1, 4) = w) =>
                                      (dir \o SubSeq(q, 5, Len(q))) \in fs'
                            /\ \A q \in fs : ~(Len(q) >= 4 /\ SubSeq(q, 1, 4) = w) =>
                                  q \in fs'
                  /\ wrappers = {} => fs' = fs]_vars

C13_Witness ==
    \E p \in Calls :
        /\ pc[p] \in {"resolve", "done"}
        /\ installs[p] = 1
        /\ <<"debug_adapters", "Debugpy", "Debugpy_v2", "src", "debugpy">> \in fs
        /\ <<"debug_adapters", "Debugpy", "Debugpy_v2", "README.md">> \in fs
        /\ <<"debug_adapters", "Debugpy", "Debugpy_v2", "microsoft-debugpy-abc">> \notin fs
        /\ <<"debug_adapters", "Debugpy", "Debugpy_v2", "microsoft-debugpy-abc", "src">>
              \notin fs

----------------------------------------------------------------------------
(* Properties of connection negotiation *)

----------------------------------------------------------------------------
(* Properties of the console message *)

LeavesClaim(p) == pc[p] = "claim" /\ pc'[p] # "claim"

\* C15: the console receives exactly one "Checking latest version" message,
\* sent by the call that claims the flag, in the step that sets the flag and
\* before that call's version fetch; a call that skips the check and every
\* other step send nothing.
C15_OneCheckingMessage ==
    [][/\ Len(console') <= 1
       /\ (\E p \in Calls : pc'[p] \notin {"idle", "claim"}) => Len(console') = 1
       /\ \A p \in Calls :
             /\ (LeavesClaim(p) /\ ~checked) =>
                   /\ console' = Append(console,
                                        [by |-> p,
                                         message |->
                                             "Checking latest version of Debugpy..."])
                   /\ checked'
                   /\ fetches' = fetches
             /\ (LeavesClaim(p) /\ checked) => console' = console
             /\ fetches'[p] > fetches[p] =>
                   \E i \in DOMAIN console : console[i].by = p
       /\ (\A p \in Calls : ~LeavesClaim(p)) => console' = console]_vars

C15_Witness ==
    \E p, q \in Calls :
        /\ p # q
        /\ pc[p] = "done" /\ pc[q] = "done"
        /\ fetches[p] = 1 /\ fetches[q] = 0
        /\ console = <<[by |-> p, message |-> "Checking latest version of Debugpy..."]>>

----------------------------------------------------------------------------
(* Properties of calls with an explicit installed path *)

\* C16: an explicit installed path does not suppress the one-time check: a
\* call that finds the flag unset claims it and fetches whether or not it
\* was given a path; when the fetch returns a version it installs into the
\* version directory under the adapters root, and its descriptor still
\* points into the supplied path.
C16_CheckRunsWithInstalledPath ==
    [][\A p \in Calls :
          IsSome(user_installed_path[p]) =>
              /\ (LeavesClaim(p) /\ ~checked) => (pc'[p] = "fetch" /\ checked')
              /\ (pc[p] = "fetch" /\ pc'[p] # "fetch") => fetches'[p] = 1
              /\ (pc[p] = "fetch" /\ IsSome(version'[p])) =>
                    (pc'[p] = "download" /\ installs'[p] = 1)
              /\ (pc[p] = "download" /\ pc'[p] = "normalize") =>
                    VersionDirectory(p) \in fs'
              /\ (pc[p] = "resolve" /\ pc'[p] = "done" /\ result'[p].ok) =>
                    result'[p].val.arguments[1] =
                        to_string_lossy(user_installed_path[p].val)
                            \o "/src/debugpy/adapter"]_vars

C16_Witness ==
    \E p \in Calls :
        /\ pc[p] = "done" /\ result[p].ok
        /\ user_installed_path[p] = Some(<<"opt", "debugpy">>)
        /\ fetches[p] = 1 /\ installs[p] = 1
        /\ <<"debug_adapters", "Debugpy", "Debugpy_v2">> \in fs
        /\ result[p].val.arguments[1] = "/opt/debugpy/src/debugpy/adapter"

----------------------------------------------------------------------------
(* Precedence of the resolution errors *)

\* C17: resolution errors have a fixed precedence: a call that resolves with
\* no explicit path, no installed directory and no resolvable interpreter
\* returns NotInstalled, not InterpreterNotFound, and a call that returns
\* NotInstalled has queried neither the toolchain registry nor the
\* executable search.
C17_NotInstalledTakesPrecedence ==
    [][\A p \in Calls :
          (pc[p] = "resolve" /\ pc'[p] = "done") =>
              /\ ( /\ ~IsSome(user_installed_path[p])
                   /\ InstalledDirectories(fs) = {}
                   /\ ~InterpreterExists ) => result'[p] = Err(NotInstalled)
              /\ result'[p] = Err(NotInstalled) => queried'[p] = <<>>]_vars

C17_Witness ==
    \E p \in Calls :
        /\ Returned(p)
        /\ result[p] = Err(NotInstalled)
        /\ ~IsSome(user_installed_path[p])
        /\ InstalledDirectories(fs) = {}
        /\ toolchain = None /\ search_path = {}
        /\ queried[p] = <<>>

----------------------------------------------------------------------------
(* Keys of the attach payload *)

AttachKeys == {"request", "subProcess", "redirectOutput", "processId"}

\* C18: the payload of an attach task has exactly the keys request,
\* subProcess, redirectOutput and processId, so never stopOnEntry, env or
\* cwd, whatever the task gives as stop_on_entry.
C18_AttachIgnoresStopOnEntry ==
    (Built /\ task.request.kind = "Attach") =>
        /\ Keys = AttachKeys
        /\ {"stopOnEntry", "env", "cwd"} \cap Keys = {}

C18_Witness ==
    /\ Built
    /\ task.request.kind = "Attach"
    /\ task.stop_on_entry = Some(TRUE)
    /\ Keys = AttachKeys

----------------------------------------------------------------------------
(* Working directory and environment of the descriptor *)

\* C19: every returned descriptor has no working directory, an empty
\* environment mapping and connection parameters that are present; the cwd
\* and env of a launch task appear in the descriptor's request_args only.
C19_DescriptorCarriesNoLaunchContext ==
    \A p \in Calls :
        (Returned(p) /\ result[p].ok) =>
            LET binary == result[p].val
                request == config[p].request
                configuration == binary.request_args.configuration
            IN  /\ binary.cwd = None
                /\ DOMAIN binary.envs = {}
                /\ binary.connection # None
                /\ (request.kind = "Launch" /\ IsSome(request.cwd)) =>
                      /\ "cwd" \in DOMAIN configuration
                      /\ configuration["cwd"] = to_string_lossy(request.cwd.val)
                /\ (request.kind = "Launch" /\ DOMAIN request.env # {}) =>
                      /\ "env" \in DOMAIN configuration
                      /\ configuration["env"] = request.env

C19_Witness ==
    \E p \in Calls :
        /\ Returned(p) /\ result[p].ok
        /\ config[p].request.kind = "Launch"
        /\ config[p].request.cwd = Some(<<"work", "project">>)
        /\ DOMAIN config[p].request.env = {"PYTHONPATH", "DEBUG"}
        /\ result[p].val.cwd = None
        /\ DOMAIN result[p].val.envs = {}
        /\ result[p].val.request_args.configuration["cwd"] = "/work/project"

====
